---- MODULE Spec2Model ----
(***************************************************************************)
(* Model of go-gost/hosts (src/hosts.go): the static host table            *)
(* staticHosts with Lookup, Reload, Period, Stop and Stopped, called by a  *)
(* bounded set of goroutines, and the line tokenizer splitLine.            *)
(*                                                                         *)
(* Strings are sequences of one-character strings, so that splitLine,      *)
(* net.ParseIP and time.ParseDuration are computed on the characters.      *)
(***************************************************************************)
EXTENDS Integers, Sequences, FiniteSets, TLC

(* ------------------------------ bounds -------------------------------- *)

\* number of goroutines that call the table concurrently
NumProcs == 2
\* number of calls the goroutines make in all
MaxCalls == 3

Procs == 1..NumProcs

(* ----------------------------- strings -------------------------------- *)

\* unicode.IsSpace on the characters a line can hold (strings.TrimSpace)
IsSpace(c) == c \in {" ", "\t", "\r", "\f"}

\* s[from..] as a fresh sequence (Go's s[from-1:])
Drop(s, n) == SubSeq(s, n + 1, Len(s))

\* strings.IndexByte(line, c), 1-based; 0 when c does not occur (Go: -1)
IndexByte(s, c) ==
  IF \E i \in 1..Len(s) : s[i] = c
  THEN CHOOSE i \in 1..Len(s) : s[i] = c /\ \A j \in 1..(i - 1) : s[j] # c
  ELSE 0

\* the tabs left in the line
ReplaceTabsNone(s) == s

\* strings.Replace(line, "\t", " ", -1)
ReplaceTabs(s) == [i \in 1..Len(s) |-> IF s[i] = "\t" THEN " " ELSE s[i]]

\* strings.TrimSpace(s)
TrimSpace(s) ==
  LET ns == {i \in 1..Len(s) : ~IsSpace(s[i])}
  IN  IF ns = {} THEN <<>>
      ELSE SubSeq(s, CHOOSE i \in ns : \A j \in ns : i <= j,
                     CHOOSE i \in ns : \A j \in ns : j <= i)

\* strings.Split(s, " "): the fragments between single spaces, empty ones kept
RECURSIVE Split(_)
Split(s) ==
  LET n == IndexByte(s, " ")
  IN  IF n = 0 THEN <<s>>
      ELSE <<SubSeq(s, 1, n - 1)>> \o Split(Drop(s, n))

\* the loop of splitLine: trim each fragment, keep the non-empty ones
RECURSIVE KeepNonEmpty(_)
KeepNonEmpty(fs) ==
  IF fs = <<>> THEN <<>>
  ELSE LET s == TrimSpace(Head(fs))
       IN  (IF s # <<>> THEN <<s>> ELSE <<>>) \o KeepNonEmpty(Tail(fs))

\* splitLine(line)
splitLine(line) ==
  IF line = <<>> THEN <<>>
  ELSE LET n  == IndexByte(line, "#")
           l1 == IF n > 0 THEN SubSeq(line, 1, n - 1) ELSE line
           l2 == ReplaceTabs(l1)
           l3 == TrimSpace(l2)
       IN  KeepNonEmpty(Split(l3))

(* ------------------------ net.ParseIP (IPv4) --------------------------- *)

Digits == <<"0", "1", "2", "3", "4", "5", "6", "7", "8", "9">>

IsDigit(c) == \E i \in 1..Len(Digits) : Digits[i] = c

DigitVal(c) == (CHOOSE i \in 1..Len(Digits) : Digits[i] = c) - 1

\* the value of a run of decimal digits
RECURSIVE DecVal(_)
DecVal(ds) ==
  IF ds = <<>> THEN 0
  ELSE DecVal(SubSeq(ds, 1, Len(ds) - 1)) * 10 + DigitVal(ds[Len(ds)])

\* the fragments of s between dots, empty ones kept
RECURSIVE SplitDots(_)
SplitDots(s) ==
  LET n == IndexByte(s, ".")
  IN  IF n = 0 THEN <<s>>
      ELSE <<SubSeq(s, 1, n - 1)>> \o SplitDots(Drop(s, n))

\* one field of a dotted quad: 1 to 3 digits, no leading zero, at most 255
IsOctet(f) ==
  /\ Len(f) \in 1..3
  /\ \A i \in 1..Len(f) : IsDigit(f[i])
  /\ (Len(f) > 1 => f[1] # "0")
  /\ DecVal(f) <= 255

\* a nil net.IP
NoIP == <<>>

\* net.ParseIP(s) for dotted-decimal IPv4 literals: the four octets, or NoIP.
\* The sources below hold no ':' character, so IPv6 literals do not arise.
ParseIP(s) ==
  LET fs == SplitDots(s)
  IN  IF Len(fs) = 4 /\ \A i \in 1..4 : IsOctet(fs[i])
      THEN <<DecVal(fs[1]), DecVal(fs[2]), DecVal(fs[3]), DecVal(fs[4])>>
      ELSE NoIP

(* ------------------------ time.ParseDuration --------------------------- *)

\* the number of leading decimal digits of s
RECURSIVE NumLeading(_)
NumLeading(s) ==
  IF s # <<>> /\ IsDigit(Head(s)) THEN 1 + NumLeading(Tail(s)) ELSE 0

\* the length of the unit that starts s: up to the next digit or '.'
RECURSIVE UnitLen(_)
UnitLen(s) ==
  IF s # <<>> /\ ~IsDigit(Head(s)) /\ Head(s) # "." THEN 1 + UnitLen(Tail(s)) ELSE 0

RECURSIVE Pow10(_)
Pow10(n) == IF n = 0 THEN 1 ELSE 10 * Pow10(n - 1)

\* time's unitMap, in nanoseconds; 0 for an unknown unit
UnitNs(u) ==
  CASE u = <<"n", "s">> -> 1
    [] u = <<"u", "s">> -> 1000
    [] u = <<"m", "s">> -> 1000000
    [] u = <<"s">>      -> 1000000000
    [] u = <<"m">>      -> 60 * 1000000000
    [] u = <<"h">>      -> 3600 * 1000000000
    [] OTHER            -> 0

DurFail == [ok |-> FALSE, d |-> 0]

\* the loop of time.ParseDuration over ([0-9]*(\.[0-9]*)?[a-z]+)+ ; d is the
\* total so far.  Every failure returns the zero duration with the error.
RECURSIVE DurLoop(_, _)
DurLoop(s, d) ==
  IF s = <<>> THEN [ok |-> TRUE, d |-> d]
  ELSE IF ~(Head(s) = "." \/ IsDigit(Head(s))) THEN DurFail
  ELSE LET npre   == NumLeading(s)
           v      == DecVal(SubSeq(s, 1, npre))
           s1     == Drop(s, npre)
           hasDot == s1 # <<>> /\ Head(s1) = "."
           s2     == IF hasDot THEN Tail(s1) ELSE s1
           npost  == IF hasDot THEN NumLeading(s2) ELSE 0
           f      == DecVal(SubSeq(s2, 1, npost))
           s3     == Drop(s2, npost)
           i      == UnitLen(s3)
           unit   == UnitNs(SubSeq(s3, 1, i))
       IN  IF npre = 0 /\ npost = 0 THEN DurFail
           ELSE IF i = 0 THEN DurFail
           ELSE IF unit = 0 THEN DurFail
           ELSE DurLoop(Drop(s3, i),
                        d + v * unit + (IF f > 0 THEN (f * unit) \div Pow10(npost) ELSE 0))

\* time.ParseDuration(s): [ok, d] with d the nanoseconds, 0 when ok is FALSE
ParseDuration(s) ==
  LET signed == s # <<>> /\ Head(s) \in {"-", "+"}
      neg    == signed /\ Head(s) = "-"
      t      == IF signed THEN Tail(s) ELSE s
  IN  IF t = <<"0">> THEN [ok |-> TRUE, d |-> 0]
      ELSE IF t = <<>> THEN DurFail
      ELSE LET r == DurLoop(t, 0)
           IN  IF r.ok /\ neg THEN [ok |-> TRUE, d |-> 0 - r.d] ELSE r

(* ------------------------------ inputs --------------------------------- *)

Str_a == <<"a">>
Str_x == <<"x">>
IP1 == <<"1", ".", "1", ".", "1", ".", "1">>
IP2 == <<"2", ".", "2", ".", "2", ".", "2">>
Kw_reload == <<"r", "e", "l", "o", "a", "d">>

\* "1.1.1.1<TAB>a  x #c": a host line with an alias, mixed blanks and a comment
Line_host1 == IP1 \o <<"\t">> \o Str_a \o <<" ", " ">> \o Str_x \o <<" ", "#", "c">>
\* "2.2.2.2 x": a host line whose hostname is the alias of Line_host1
Line_host2 == IP2 \o <<" ">> \o Str_x
\* "1.1.1 b": the first token is no IP address
Line_badip == <<"1", ".", "1", ".", "1", " ", "b">>
\* "b": fewer than 2 fields
Line_short == <<"b">>
\* "reload 5ns"
Line_reload5 == Kw_reload \o <<" ", "5", "n", "s">>
\* "reload z": a directive whose duration does not parse
Line_reloadbad == Kw_reload \o <<" ", "z">>
\* "reload -1ns"
Line_reloadneg == Kw_reload \o <<" ", "-", "1", "n", "s">>

\* An io.Reader as bufio.Scanner sees it: nil, or the lines it delivers and
\* whether the scan then ends with an error (scanner.Err() # nil).
Rd(nil, lines, err) == [nil |-> nil, lines |-> lines, err |-> err]

Readers ==
  << Rd(TRUE, <<>>, FALSE),
     Rd(FALSE, <<>>, FALSE),
     Rd(FALSE, <<Line_host1, Line_reload5, Line_badip>>, FALSE),
     Rd(FALSE, <<Line_host1, Line_short, Line_host2>>, FALSE),
     Rd(FALSE, <<Line_reload5, Line_reloadbad>>, FALSE),
     Rd(FALSE, <<Line_reloadneg>>, FALSE),
     Rd(FALSE, <<Line_host2, Line_reload5>>, TRUE) >>

ReaderIds == 1..Len(Readers)

\* the names Lookup is called with: the empty name, and a name that is the
\* alias of one record and the hostname of another
Queries == {<<>>, Str_x}

\* NewHost(ip, hostname, aliases...)
NewHost(ip, hostname, aliases) ==
  [IP |-> ip, Hostname |-> hostname, Aliases |-> aliases]

\* the host lists NewHosts is called with
InitTables ==
  { <<>>,
    << NewHost(<<1, 1, 1, 1>>, Str_a, <<Str_x>>),
       NewHost(<<2, 2, 2, 2>>, Str_x, <<>>) >> }

(* ------------------------------ Lookup --------------------------------- *)

\* the inner loop looking at the first alias only
AliasMatchFirst(h, host) == h.Aliases # <<>> /\ h.Aliases[1] = host

\* the inner loop of Lookup over h.Aliases: some alias equals host
AliasMatch(h, host) == \E i \in 1..Len(h.Aliases) : h.Aliases[i] = host

\* the loop of Lookup over h.hosts, ip being the result so far: a hostname
\* match ends the loop; an alias match sets ip and ends the alias loop only
RECURSIVE LookupLoop(_, _, _)
LookupLoop(hs, host, ip) ==
  IF hs = <<>> THEN ip
  ELSE LET h == Head(hs)
       IN  IF h.Hostname = host THEN h.IP
           ELSE LookupLoop(Tail(hs), host, IF AliasMatch(h, host) THEN h.IP ELSE ip)

(* --------------------------- Reload, per line -------------------------- *)

\* the aliases taken from ss[1:] instead of ss[2:]
HostOfFieldsAliasOff(ss, ip) ==
  [IP |-> ip, Hostname |-> ss[2], Aliases |-> SubSeq(ss, 2, Len(ss))]

\* the Host built from the fields of a line whose first field is the IP ip
HostOfFields(ss, ip) ==
  [IP |-> ip, Hostname |-> ss[2],
   Aliases |-> IF Len(ss) > 2 THEN SubSeq(ss, 3, Len(ss)) ELSE <<>>]

\* case "reload": period, _ = time.ParseDuration(ss[1])
ReloadOption(prev, tok) == ParseDuration(tok).d

\* the body of the scan loop for one line: the new <<period, hosts>>
ScanLine(line, prd, hs) ==
  LET ss == splitLine(line)
  IN  IF Len(ss) < 2 THEN <<prd, hs>>
      ELSE IF ss[1] = Kw_reload THEN <<ReloadOption(prd, ss[2]), hs>>
      ELSE LET ip == ParseIP(ss[1])
           IN  IF ip = NoIP THEN <<prd, hs>>
               ELSE <<prd, Append(hs, HostOfFields(ss, ip))>>

(* ------------------------------- state --------------------------------- *)

VARIABLES
  hosts,        \* h.hosts
  period,       \* h.period
  stopped,      \* h.stopped is closed
  mux_w,        \* h.mux: the goroutine inside Lock() .. Unlock(), 0 if none
  mux_r,        \* h.mux: the goroutines that hold the read lock
  panicked,     \* the program died of a panic
  pc,           \* where each goroutine is in its call
  op,           \* the method each goroutine called last
  calls,        \* how many calls each goroutine has made
  hnil,         \* the receiver h of the call is a nil *staticHosts
  host,         \* Lookup's argument
  rd,           \* Reload's argument r, an index into Readers (0 outside Reload)
  lperiod,      \* Reload's local period
  lhosts,       \* Reload's local hosts
  ret,          \* what the last call returned
  committed,    \* history: the <<hosts, period>> of the last completed swap
  lastReader,   \* history: the reader of the last completed swap, 0 if none
  lastLocked,   \* history: the reader of the Reload that got the write lock last
  lastOption,   \* history: the period of the last swap whose text had a reload line
  stopReturned, \* history: some Stop call has returned
  began,        \* history: the call began after a Stop call had returned
  sl_line,      \* splitLine's argument line
  sl_ss         \* splitLine's result ss

table  == <<hosts, period>>
mux    == <<mux_w, mux_r>>
locals == <<lperiod, lhosts>>
args   == <<hnil, host, rd>>
split  == <<sl_line, sl_ss>>
hist   == <<committed, lastReader, lastLocked, lastOption>>
vars   == <<hosts, period, stopped, mux_w, mux_r, panicked, pc, op, calls, hnil, host, rd,
            lperiod, lhosts, ret, committed, lastReader, lastLocked, lastOption,
            stopReturned, began, sl_line, sl_ss>>

\* the zero values of the results: a nil net.IP, a nil error
NoRet == [ip |-> NoIP, dur |-> 0, err |-> FALSE, b |-> FALSE]

\* NewHosts(hosts...) with the host list one of T: period is zero, the stopped
\* channel is open
InitOf(T) ==
  /\ hosts \in T
  /\ period = 0
  /\ stopped = FALSE
  /\ mux_w = 0
  /\ mux_r = {}
  /\ panicked = FALSE
  /\ pc = [p \in Procs |-> "idle"]
  /\ op = [p \in Procs |-> "none"]
  /\ calls = [p \in Procs |-> 0]
  /\ hnil = [p \in Procs |-> FALSE]
  /\ host = [p \in Procs |-> <<>>]
  /\ rd = [p \in Procs |-> 0]
  /\ lperiod = [p \in Procs |-> 0]
  /\ lhosts = [p \in Procs |-> <<>>]
  /\ ret = [p \in Procs |-> NoRet]
  /\ committed = <<hosts, 0>>
  /\ lastReader = 0
  /\ lastLocked = 0
  /\ lastOption = 0
  /\ stopReturned = FALSE
  /\ began = [p \in Procs |-> FALSE]
  /\ sl_line = <<>>
  /\ sl_ss = <<>>

Init == InitOf(InitTables)

(* ------------------------------ sync.RWMutex --------------------------- *)

\* RLock() that lets a reader in beside a writer
CanRLockUnguarded == TRUE

\* RLock() when Reload takes the write lock before it reads its source
CanRLockAfterScan == mux_w = 0 /\ \A p \in Procs : pc[p] # "rl_scan"

\* RLock() proceeds unless a writer holds the lock or waits for it
CanRLock == mux_w = 0

\* Lock() that does not exclude the other writers
CanLockUnguarded == TRUE

\* Lock() first excludes the other writers and the readers to come ...
CanLock == mux_w = 0

\* ... and then waits for the readers that hold the lock to leave
LockGranted == mux_r = {}

(* -------------------------------- calls -------------------------------- *)

\* the number of calls made by the goroutines 1..n
RECURSIVE CallsOf(_)
CallsOf(n) == IF n = 0 THEN 0 ELSE calls[n] + CallsOf(n - 1)

\* goroutine p calls method o, on a nil receiver if n, with Lookup argument q
\* and Reload argument r; the goroutines are numbered in the order of their
\* first calls
CallOn(p, n, o, q, r) ==
  /\ ~panicked
  /\ pc[p] = "idle"
  /\ CallsOf(NumProcs) < MaxCalls
  /\ (p > 1 /\ calls[p] = 0) => calls[p - 1] > 0
  /\ calls' = [calls EXCEPT ![p] = @ + 1]
  /\ op' = [op EXCEPT ![p] = o]
  /\ hnil' = [hnil EXCEPT ![p] = n]
  /\ host' = [host EXCEPT ![p] = q]
  /\ rd' = [rd EXCEPT ![p] = r]
  /\ began' = [began EXCEPT ![p] = stopReturned]
  /\ UNCHANGED split

\* a call on the table NewHosts returned
Call(p, o, q, r) == CallOn(p, FALSE, o, q, r)

\* goroutine p goes on to label l of its call
Goto(p, l) == pc' = [pc EXCEPT ![p] = l]

\* goroutine p returns v
Return(p, v) ==
  /\ pc' = [pc EXCEPT ![p] = "idle"]
  /\ ret' = [ret EXCEPT ![p] = v]

At(p, l) == ~panicked /\ pc[p] = l

(* -------------------------------- Lookup ------------------------------- *)

\* the check without host == ""
LookupNoopNilOnly(n, q) == n

\* h == nil || host == ""
LookupNoop(n, q) == n \/ q = <<>>

\* Lookup(q) on a receiver that is nil if n:
\* if h == nil || host == "" { return }
LookupBegin(p, n, q) ==
  /\ CallOn(p, n, "Lookup", q, 0)
  /\ IF LookupNoop(n, q)
     THEN Return(p, NoRet)
     ELSE Goto(p, "lk_rlock") /\ ret' = [ret EXCEPT ![p] = NoRet]
  /\ UNCHANGED <<table, stopped, mux, panicked, locals, hist, stopReturned>>

\* Lookup on the table NewHosts returned
LookupCall(p) == \E q \in Queries : LookupBegin(p, FALSE, q)

\* h.mux.RLock()
LookupRLock(p) ==
  /\ At(p, "lk_rlock")
  /\ CanRLock
  /\ mux_r' = mux_r \cup {p}
  /\ Goto(p, "lk_scan")
  /\ UNCHANGED <<table, stopped, mux_w, panicked, op, calls, args, split, locals, ret, hist,
                 stopReturned, began>>

\* the scan of h.hosts, the deferred h.mux.RUnlock() and the return
LookupScan(p) ==
  /\ At(p, "lk_scan")
  /\ Return(p, [NoRet EXCEPT !.ip = LookupLoop(hosts, host[p], NoIP)])
  /\ mux_r' = mux_r \ {p}
  /\ UNCHANGED <<table, stopped, mux_w, panicked, op, calls, args, split, locals, hist,
                 stopReturned, began>>

(* -------------------------------- Reload ------------------------------- *)

\* the select that always takes its default branch
IsStoppedDefault == FALSE

\* Stopped(): select { case <-h.stopped: return true; default: return false }
IsStopped == stopped

\* the check without h.Stopped()
ReloadNoopNilOnly(r) == Readers[r].nil

\* the check without r == nil
ReloadNoopStoppedOnly(r) == IsStopped

\* if r == nil || h.Stopped() { return nil }
ReloadNoop(r) == Readers[r].nil \/ IsStopped

\* var period, var hosts, the check of r and of Stopped(), bufio.NewScanner(r)
ReloadCall(p) ==
  \E r \in ReaderIds :
    /\ Call(p, "Reload", <<>>, r)
    /\ IF ReloadNoop(r)
       THEN Return(p, NoRet)
       ELSE Goto(p, "rl_scan") /\ ret' = [ret EXCEPT ![p] = NoRet]
    /\ UNCHANGED <<table, stopped, mux, panicked, locals, hist, stopReturned>>

\* the scan error dropped
ScanErrIgnored(r) == FALSE

\* scanner.Err() after the loop
ScanErr(r) == Readers[r].err

\* the scan loop over the lines from line i on: the final <<period, hosts>>
RECURSIVE ScanFrom(_, _, _, _)
ScanFrom(lines, i, prd, hs) ==
  IF i > Len(lines) THEN <<prd, hs>>
  ELSE LET n == ScanLine(lines[i], prd, hs)
       IN  ScanFrom(lines, i + 1, n[1], n[2])

\* the <<period, hosts>> the scan loop leaves for each reader
Scanned == [r \in ReaderIds |-> ScanFrom(Readers[r].lines, 1, 0, <<>>)]

\* for scanner.Scan() { ... }; if err := scanner.Err(); err != nil { return err }
\* The loop reads only r and writes only the locals, so it is one step; the
\* goroutine is at "rl_scan" for as long as the source keeps it reading.
ReloadScan(p) ==
  /\ At(p, "rl_scan")
  /\ IF ScanErr(rd[p])
     THEN Return(p, [NoRet EXCEPT !.err = TRUE]) /\ UNCHANGED locals
     ELSE /\ Goto(p, "rl_lock")
          /\ LET n == Scanned[rd[p]]
             IN  /\ lperiod' = [lperiod EXCEPT ![p] = n[1]]
                 /\ lhosts' = [lhosts EXCEPT ![p] = n[2]]
          /\ UNCHANGED ret
  /\ UNCHANGED <<table, stopped, mux, panicked, op, calls, args, split, hist, stopReturned,
                 began>>

\* h.mux.Lock(): the writer announces itself
ReloadLock(p) ==
  /\ At(p, "rl_lock")
  /\ CanLock
  /\ mux_w' = p
  /\ Goto(p, "rl_wait")
  /\ UNCHANGED <<table, stopped, mux_r, panicked, op, calls, args, split, locals, ret, hist,
                 stopReturned, began>>

\* h.mux.Lock(): the readers have left
ReloadLockWait(p) ==
  /\ At(p, "rl_wait")
  /\ LockGranted
  /\ Goto(p, "rl_period")
  /\ lastLocked' = rd[p]
  /\ UNCHANGED <<table, stopped, mux, panicked, op, calls, args, split, locals, ret,
                 committed, lastReader, lastOption, stopReturned, began>>

\* the text of reader r holds a reload line (2 fields or more, the first "reload")
OptionReaders ==
  {r \in ReaderIds :
     \E i \in 1..Len(Readers[r].lines) :
       LET ss == splitLine(Readers[r].lines[i])
       IN  Len(ss) >= 2 /\ ss[1] = Kw_reload}

HasOption(r) == r \in OptionReaders

\* a text without a reload line leaves h.period as it is
NewPeriodKeep(p) == IF HasOption(rd[p]) THEN lperiod[p] ELSE period

\* the value of h.period = period
NewPeriod(p) == lperiod[p]

\* h.period = period
ReloadSetPeriod(p) ==
  /\ At(p, "rl_period")
  /\ period' = NewPeriod(p)
  /\ Goto(p, "rl_hosts")
  /\ UNCHANGED <<hosts, stopped, mux, panicked, op, calls, args, split, locals, ret, hist,
                 stopReturned, began>>

\* h.hosts = hosts
ReloadSetHosts(p) ==
  /\ At(p, "rl_hosts")
  /\ hosts' = lhosts[p]
  /\ committed' = <<lhosts[p], lperiod[p]>>
  /\ lastReader' = rd[p]
  /\ lastOption' = IF HasOption(rd[p]) THEN lperiod[p] ELSE lastOption
  /\ Goto(p, "rl_unlock")
  /\ UNCHANGED <<period, stopped, mux, panicked, op, calls, args, split, locals, ret,
                 lastLocked, stopReturned, began>>

\* h.mux.Unlock(); return nil
ReloadUnlock(p) ==
  /\ At(p, "rl_unlock")
  /\ mux_w' = 0
  /\ Return(p, NoRet)
  /\ lperiod' = [lperiod EXCEPT ![p] = 0]
  /\ lhosts' = [lhosts EXCEPT ![p] = <<>>]
  /\ UNCHANGED <<table, stopped, mux_r, panicked, op, calls, args, split, hist, stopReturned,
                 began>>

(* -------------------------------- Period ------------------------------- *)

\* the check of h.Stopped() left out
PeriodStoppedNever == FALSE

\* Period's h.Stopped()
PeriodStopped == IsStopped

\* if h.Stopped() { return -1 }
PeriodCall(p) ==
  /\ Call(p, "Period", <<>>, 0)
  /\ IF PeriodStopped
     THEN Return(p, [NoRet EXCEPT !.dur = -1])
     ELSE Goto(p, "pd_rlock") /\ ret' = [ret EXCEPT ![p] = NoRet]
  /\ UNCHANGED <<table, stopped, mux, panicked, locals, hist, stopReturned>>

\* h.mux.RLock()
PeriodRLock(p) ==
  /\ At(p, "pd_rlock")
  /\ CanRLock
  /\ mux_r' = mux_r \cup {p}
  /\ Goto(p, "pd_read")
  /\ UNCHANGED <<table, stopped, mux_w, panicked, op, calls, args, split, locals, ret, hist,
                 stopReturned, began>>

\* return h.period, with the deferred h.mux.RUnlock()
PeriodRead(p) ==
  /\ At(p, "pd_read")
  /\ Return(p, [NoRet EXCEPT !.dur = period])
  /\ mux_r' = mux_r \ {p}
  /\ UNCHANGED <<table, stopped, mux_w, panicked, op, calls, args, split, locals, hist,
                 stopReturned, began>>

(* ----------------------------- Stop, Stopped --------------------------- *)

\* select { case <-h.stopped: default: ... }: the receive succeeds iff the
\* channel is closed
StopCall(p) ==
  /\ Call(p, "Stop", <<>>, 0)
  /\ IF stopped
     THEN Return(p, NoRet) /\ stopReturned' = TRUE
     ELSE Goto(p, "st_close") /\ ret' = [ret EXCEPT ![p] = NoRet]
          /\ UNCHANGED stopReturned
  /\ UNCHANGED <<table, stopped, mux, panicked, locals, hist>>

\* a close that drops the records with the channel
CloseStoppedAndClear == stopped' = TRUE /\ hosts' = <<>> /\ UNCHANGED period

\* close(h.stopped) on the open channel: the table is not touched
CloseStopped == stopped' = TRUE /\ UNCHANGED table

\* close(h.stopped): closing a closed channel panics
StopClose(p) ==
  /\ At(p, "st_close")
  /\ IF stopped
     THEN /\ panicked' = TRUE
          /\ Goto(p, "panic")
          /\ UNCHANGED <<table, stopped, ret, stopReturned>>
     ELSE /\ CloseStopped
          /\ Return(p, NoRet)
          /\ stopReturned' = TRUE
          /\ UNCHANGED panicked
  /\ UNCHANGED <<mux, op, calls, args, split, locals, hist, began>>

\* select { case <-h.stopped: return true; default: return false }
StoppedCall(p) ==
  /\ Call(p, "Stopped", <<>>, 0)
  /\ Return(p, [NoRet EXCEPT !.b = IsStopped])
  /\ UNCHANGED <<table, stopped, mux, panicked, locals, hist, stopReturned>>

(* ----------------------------- specification --------------------------- *)

Next ==
  \E p \in Procs :
    \/ LookupCall(p)
    \/ LookupRLock(p)
    \/ LookupScan(p)
    \/ ReloadCall(p)
    \/ ReloadScan(p)
    \/ ReloadLock(p)
    \/ ReloadLockWait(p)
    \/ ReloadSetPeriod(p)
    \/ ReloadSetHosts(p)
    \/ ReloadUnlock(p)
    \/ PeriodCall(p)
    \/ PeriodRLock(p)
    \/ PeriodRead(p)
    \/ StopCall(p)
    \/ StopClose(p)
    \/ StoppedCall(p)

Spec == Init /\ [][Next]_vars

\* a step of the call goroutine p is in: any step but the call itself
Step(p) ==
  \/ LookupRLock(p)
  \/ LookupScan(p)
  \/ ReloadScan(p)
  \/ ReloadLock(p)
  \/ ReloadLockWait(p)
  \/ ReloadSetPeriod(p)
  \/ ReloadSetHosts(p)
  \/ ReloadUnlock(p)
  \/ PeriodRLock(p)
  \/ PeriodRead(p)
  \/ StopClose(p)

\* The Go scheduler runs every goroutine that can run, a reader delivers its
\* last line after finitely many reads, and sync.RWMutex hands the lock to a
\* goroutine that keeps waiting for it: a call that can go on does go on.
Fair == \A p \in Procs : WF_vars(Step(p))

SpecFair == Spec /\ Fair

(* --------------------- Lookup on tables of all shapes ------------------- *)

\* the longest host list NewHosts is called with
MaxHosts == 2

Str_ab == <<"a", "b">>

\* the records of those lists: one with the empty hostname, one with the empty
\* alias and an alias in second place, one whose hostname is a prefix of
\* another's, one with a nil IP (NewHost(nil, "example.com") of the test table)
LookupHosts ==
  { NewHost(<<1, 1, 1, 1>>, <<>>, <<>>),
    NewHost(<<2, 2, 2, 2>>, Str_ab, << <<>>, Str_x >>),
    NewHost(<<3, 3, 3, 3>>, Str_a, <<Str_x>>),
    NewHost(NoIP, Str_x, <<>>) }

\* every host list of MaxHosts of those records or fewer
LookupTables == UNION {[1..n -> LookupHosts] : n \in 0..MaxHosts}

\* the names Lookup is called with
LookupQueries == {<<>>, Str_a, Str_x, Str_ab}

\* Lookup on a nil *staticHosts or on the table NewHosts returned
LookupAnyCall(p) ==
  \E n \in BOOLEAN : \E q \in LookupQueries : LookupBegin(p, n, q)

InitLookup == InitOf(LookupTables)

NextLookup ==
  \E p \in Procs :
    \/ LookupAnyCall(p)
    \/ LookupRLock(p)
    \/ LookupScan(p)

\* goroutines that call only Lookup, on a table of any of these shapes
SpecLookup == InitLookup /\ [][NextLookup]_vars

(* ------------------------- splitLine on all lines ----------------------- *)

\* the longest line splitLine is called with
MaxLen == 5

\* the characters of those lines: two ordinary ones, space, tab and '#'
Alphabet == {"a", "b", " ", "\t", "#"}

\* ss := splitLine(line) for a line one character longer than the last: the
\* calls go through every line of MaxLen of those characters or fewer
SplitCall ==
  \E c \in Alphabet :
    /\ Len(sl_line) < MaxLen
    /\ sl_line' = Append(sl_line, c)
    /\ sl_ss' = splitLine(sl_line')

NextSplit ==
  /\ SplitCall
  /\ UNCHANGED <<table, stopped, mux, panicked, pc, op, calls, args, locals, ret,
                 hist, stopReturned, began>>

\* calls of splitLine alone, on a line of any of these shapes
SpecSplit == InitOf({<<>>}) /\ [][NextSplit]_vars

(* ------------------------ what the claims refer to --------------------- *)

\* this step is a step of goroutine p
Acts(p) == <<pc[p], calls[p]>>' # <<pc[p], calls[p]>>

\* this step is the return of p's call
Returns(p) == Acts(p) /\ pc'[p] = "idle"

\* the fields of line i of a text
Fields(lines, i) == splitLine(lines[i])

\* the lines of a text that describe a host: 2 fields or more, the first an IP
HostLines(lines) ==
  {i \in 1..Len(lines) :
     Len(Fields(lines, i)) >= 2 /\ ParseIP(Fields(lines, i)[1]) # NoIP}

\* the reload lines of a text: 2 fields or more, the first the keyword
OptionLines(lines) ==
  {i \in 1..Len(lines) :
     Len(Fields(lines, i)) >= 2 /\ Fields(lines, i)[1] = Kw_reload}

\* the k-th smallest member of a set of line numbers
Nth(I, k) == CHOOSE i \in I : Cardinality({j \in I : j < i}) = k - 1

Max(I) == CHOOSE i \in I : \A j \in I : j <= i

\* the records a text describes: one per host line, in the order of the text
ExpectedHosts(lines) ==
  [k \in 1..Cardinality(HostLines(lines)) |->
     LET ss == Fields(lines, Nth(HostLines(lines), k))
     IN  [IP |-> ParseIP(ss[1]), Hostname |-> ss[2],
          Aliases |-> [j \in 1..(Len(ss) - 2) |-> ss[j + 2]]]]

\* the duration of the last reload line of a text, zero when it does not parse
\* and when the text has no reload line
LastOptionValue(lines) ==
  IF OptionLines(lines) = {} THEN 0
  ELSE ParseDuration(Fields(lines, Max(OptionLines(lines)))[2]).d

\* the duration of the last reload line of a text that parses, zero if none does
LastGoodOption(lines) ==
  LET good == {i \in OptionLines(lines) : ParseDuration(Fields(lines, i)[2]).ok}
  IN  IF good = {} THEN 0 ELSE ParseDuration(Fields(lines, Max(good))[2]).d

\* what the text of each reader describes
TextHosts == [r \in ReaderIds |-> ExpectedHosts(Readers[r].lines)]

TextOption == [r \in ReaderIds |-> LastOptionValue(Readers[r].lines)]

TextGoodOption == [r \in ReaderIds |-> LastGoodOption(Readers[r].lines)]

\* the IP of the first record of hs that matches q by hostname or by alias
FirstMatchIP(hs, q) ==
  LET m == {i \in 1..Len(hs) : hs[i].Hostname = q \/ AliasMatch(hs[i], q)}
  IN  IF m = {} THEN NoIP ELSE hs[CHOOSE i \in m : \A j \in m : i <= j].IP

\* goroutine p holds the read lock of h.mux
Reading(p) == pc[p] \in {"lk_scan", "pd_read"}

\* p's call is a Reload of a reader that is not nil
ReloadOf(p) == op[p] = "Reload" /\ ~Readers[rd[p]].nil

\* goroutine p is between h.mux.Lock() and h.mux.Unlock()
Writing(p) == pc[p] \in {"rl_period", "rl_hosts", "rl_unlock"}

\* the records of hs that match q: the hostname or the alias at some place is
\* the very string q
Matches(hs, q) ==
  {i \in 1..Len(hs) :
     \/ hs[i].Hostname = q
     \/ \E j \in 1..Len(hs[i].Aliases) : hs[i].Aliases[j] = q}

\* s is a proper prefix of t
IsPrefix(s, t) == Len(s) < Len(t) /\ SubSeq(t, 1, Len(s)) = s

(* -------------------------------- claims -------------------------------- *)

\* C1: Lookup of a non-empty name returns the IP of the first record, in
\* sequence order, that matches the name by hostname or by alias; later
\* records cannot change the result.
C1_FirstMatchWins ==
  [][\A p \in Procs :
       (pc[p] = "lk_scan" /\ Returns(p)) => ret'[p].ip = FirstMatchIP(hosts, host[p])]_vars

\* C2: whatever the interleaving of Stop calls, no call panics with a double
\* close, and once a Stop call has returned the channel is closed.
C2_StopNeverPanics == ~panicked /\ (stopReturned => stopped)

\* C3: whenever a Lookup or Period call holds the read lock, the pair
\* <<hosts, period>> is the pair of one single completed swap (or the
\* constructed pair), never the records of one with the period of another.
C3_ReloadAtomic ==
  \A p \in Procs : Reading(p) => <<hosts, period>> = committed

\* a reader holds the lock of a reloaded table while a Reload with another
\* period and other records waits for the write lock
C3_Witness ==
  \E p, q \in Procs :
    /\ Reading(p)
    /\ lastReader # 0
    /\ pc[q] = "rl_wait"
    /\ lperiod[q] # period
    /\ lhosts[q] # hosts

\* C4: a Reload call (of any reader) that begins after a Stop call has returned
\* returns nil at once and changes neither h.hosts nor h.period.
C4_ReloadAfterStopNoop ==
  [][\A p \in Procs :
       (Acts(p) /\ op'[p] = "Reload" /\ began'[p])
         => /\ hosts' = hosts
            /\ period' = period
            /\ pc'[p] = "idle"
            /\ ret'[p] = NoRet]_vars

\* a Reload of a text with host lines that began after Stop has returned nil,
\* and the table is not what the text describes
C4_Witness ==
  \E p \in Procs :
    /\ op[p] = "Reload"
    /\ began[p]
    /\ pc[p] = "idle"
    /\ ret[p] = NoRet
    /\ ~Readers[rd[p]].err
    /\ TextHosts[rd[p]] # <<>>
    /\ hosts # TextHosts[rd[p]]

\* C5 (as claimed): a Period call that begins after a Stop call has returned
\* yields -1, and a Period call that returns while the table is not stopped
\* does not yield -1.
C5_MinusOneOnlyWhenStopped ==
  [][\A p \in Procs :
       (Returns(p) /\ op'[p] = "Period")
         => /\ began'[p] => ret'[p].dur = -1
            /\ ~stopped' => ret'[p].dur # -1]_vars

\* C5 (amended): a Period call that begins after a Stop call has returned
\* yields -1 whatever the reloads before it installed; a Period call yields -1
\* only if the table is stopped or the text of the last completed Reload set
\* the period to -1ns.
C5_PeriodSentinel ==
  [][\A p \in Procs :
       (Returns(p) /\ op'[p] = "Period")
         => /\ began'[p] => ret'[p].dur = -1
            /\ ret'[p].dur = -1
                 => \/ stopped
                    \/ /\ lastReader # 0
                       /\ TextOption[lastReader] = -1]_vars

\* a Period call that began after Stop has returned -1 although a Reload
\* installed another period before
C5_Witness ==
  \E p \in Procs :
    /\ op[p] = "Period"
    /\ began[p]
    /\ pc[p] = "idle"
    /\ ret[p].dur = -1
    /\ lastReader # 0
    /\ period > 0

\* C6: no step of a Reload whose scan fails changes h.hosts or h.period, and
\* the call returns the failure when the scan ends.
C6_ScanFailureKeepsTable ==
  [][\A p \in Procs :
       (Acts(p) /\ op'[p] = "Reload" /\ Readers[rd'[p]].err)
         => /\ hosts' = hosts
            /\ period' = period
            /\ (pc[p] # "idle" /\ Returns(p)) => ret'[p].err]_vars

\* a Reload that read a host line and a reload line has returned the failure,
\* and neither is in the table
C6_Witness ==
  \E p \in Procs :
    /\ op[p] = "Reload"
    /\ pc[p] = "idle"
    /\ ret[p].err
    /\ TextHosts[rd[p]] # <<>>
    /\ TextOption[rd[p]] # 0
    /\ hosts # TextHosts[rd[p]]
    /\ period # TextOption[rd[p]]

\* C7: when a Reload has swapped the table, h.hosts is, in the order of the
\* text, one record per line with 2 fields or more whose first field is an IP
\* address (hostname the 2nd field, aliases the fields from the 3rd on); and a
\* Reload whose scan does not fail returns no failure.
C7_ReloadBuildsRecords ==
  \A p \in Procs :
    /\ pc[p] = "rl_unlock" => hosts = TextHosts[rd[p]]
    /\ (ReloadOf(p) /\ pc[p] = "idle" /\ ~Readers[rd[p]].err) => ~ret[p].err

\* a Reload has swapped in the records of a text that also holds lines that
\* describe no host, the first record with aliases
C7_Witness ==
  \E p \in Procs :
    /\ pc[p] = "rl_unlock"
    /\ Len(hosts) >= 1
    /\ Len(hosts) < Len(Readers[rd[p]].lines)
    /\ hosts[1].Aliases # <<>>

\* C8 (as claimed): no step of a Reload of a source without content, nil or
\* not, changes h.hosts or h.period, and the call returns nil.
C8_EmptySourceNoop ==
  [][\A p \in Procs :
       (Acts(p) /\ op'[p] = "Reload" /\ Readers[rd'[p]].lines = <<>>
          /\ ~Readers[rd'[p]].err)
         => /\ hosts' = hosts
            /\ period' = period
            /\ Returns(p) => ret'[p] = NoRet]_vars

\* C8 (amended): a Reload of a nil source returns nil at once and changes
\* neither h.hosts nor h.period; a Reload of a source that is not nil and has
\* no content, once it has swapped, has left no record and the zero period,
\* and returns nil.
C8_NilNoopEmptyClears ==
  [][\A p \in Procs :
       (Acts(p) /\ op'[p] = "Reload")
         => /\ Readers[rd'[p]].nil
                 => /\ hosts' = hosts
                    /\ period' = period
                    /\ pc'[p] = "idle"
                    /\ ret'[p] = NoRet
            /\ (~Readers[rd'[p]].nil /\ Readers[rd'[p]].lines = <<>>
                  /\ ~Readers[rd'[p]].err /\ pc[p] = "rl_unlock")
                 => /\ hosts = <<>>
                    /\ period = 0
                    /\ ret'[p] = NoRet]_vars

\* a Reload of a source without content is about to replace the records of a
\* table that has some, while a Reload of a nil source has returned
C8_Witness ==
  \E p, q \in Procs :
    /\ ReloadOf(p)
    /\ Readers[rd[p]].lines = <<>>
    /\ pc[p] = "rl_hosts"
    /\ hosts # <<>>
    /\ op[q] = "Reload"
    /\ Readers[rd[q]].nil
    /\ pc[q] = "idle"

\* C9: the period a Reload installs is that of the last reload
\* line of the text that parsed, zero only if none parsed; no failure is
\* returned for a reload line that does not parse.
C9_BadOptionKeepsLast ==
  \A p \in Procs :
    /\ pc[p] = "rl_unlock" => period = TextGoodOption[rd[p]]
    /\ (ReloadOf(p) /\ pc[p] = "idle" /\ ~Readers[rd[p]].err) => ~ret[p].err

\* C10 (as claimed): Period on a table that is not stopped returns the period
\* parsed most recently over all completed Reload calls; a Reload whose text
\* has no reload line does not discard it.
C10_PeriodKeepsHistory ==
  [][\A p \in Procs :
       (pc[p] = "pd_read" /\ Returns(p)) => ret'[p].dur = lastOption]_vars

\* C10 (amended): Period on a table that is not stopped returns the period of
\* the text of the last completed Reload alone: that of its last reload line,
\* and zero if it has none, whatever earlier Reload calls parsed; zero if no
\* Reload has completed.
C10_PeriodOfLastReload ==
  [][\A p \in Procs :
       (pc[p] = "pd_read" /\ Returns(p))
         => ret'[p].dur = IF lastReader = 0 THEN 0
                          ELSE TextOption[lastReader]]_vars

\* Period is about to read the zero period left by a Reload without a reload
\* line, after an earlier Reload had installed another period
C10_Witness ==
  \E p \in Procs :
    /\ pc[p] = "pd_read"
    /\ lastReader # 0
    /\ ~HasOption(lastReader)
    /\ lastOption # 0
    /\ period = 0

\* C11: a Lookup of the empty name returns no IP whatever the table holds,
\* records with the empty hostname or an empty alias included; a Lookup on a
\* nil table returns no IP whatever the name; and neither ever asks for the
\* lock: the call is over in its first step.
C11_EmptyOrNilAbsent ==
  \A p \in Procs :
    (op[p] = "Lookup" /\ (hnil[p] \/ host[p] = <<>>))
      => /\ pc[p] = "idle"
         /\ ret[p].ip = NoIP
         /\ p \notin mux_r

\* a Lookup of the empty name has returned on a table with a record that has
\* the empty hostname and one that has an empty alias, and a Lookup of a name
\* of the table has returned on a nil table
C11_Witness ==
  \E p, q \in Procs :
    /\ op[p] = "Lookup" /\ ~hnil[p] /\ host[p] = <<>> /\ pc[p] = "idle"
    /\ Matches(hosts, <<>>) = {1, 2}
    /\ hosts[1].Hostname = <<>>
    /\ hosts[2].Hostname # <<>>
    /\ op[q] = "Lookup" /\ hnil[q] /\ pc[q] = "idle"
    /\ Matches(hosts, host[q]) # {}

\* C12: a Lookup of a non-empty name that has returned on a table none of
\* whose records has that very string as hostname or alias has returned no IP;
\* on a table exactly one of whose records has it, as hostname or as alias at
\* whatever place, it has returned the IP of that record.
C12_ExactMatchOnly ==
  \A p \in Procs :
    (op[p] = "Lookup" /\ ~hnil[p] /\ host[p] # <<>> /\ pc[p] = "idle")
      => LET m == Matches(hosts, host[p])
         IN  /\ m = {} => ret[p].ip = NoIP
             /\ Cardinality(m) = 1 => ret[p].ip = hosts[CHOOSE i \in m : TRUE].IP

\* a Lookup of a name that is a proper prefix of the second record's hostname
\* and an alias of no record has returned no IP, and a Lookup has returned
\* the IP of the only record that matches, by its second alias
C12_Witness ==
  \E p, q \in Procs :
    /\ op[p] = "Lookup" /\ ~hnil[p] /\ pc[p] = "idle"
    /\ Len(hosts) = 2
    /\ IsPrefix(host[p], hosts[2].Hostname)
    /\ host[p] # <<>>
    /\ Matches(hosts, host[p]) = {}
    /\ ret[p].ip = NoIP
    /\ op[q] = "Lookup" /\ ~hnil[q] /\ pc[q] = "idle"
    /\ Matches(hosts, host[q]) = {2}
    /\ hosts[2].Hostname # host[q]
    /\ hosts[2].Aliases[1] # host[q]
    /\ ret[q].ip = hosts[2].IP
    /\ ret[q].ip # NoIP

\* C13: no two Reload calls are between Lock and Unlock at once, and whenever
\* every Reload call made so far has returned and some Reload got the write
\* lock, h.hosts and h.period are both what the text of the Reload that got
\* the write lock last describes: no record and no period of another text.
C13_LastWriterWins ==
  /\ Cardinality({p \in Procs : Writing(p)}) <= 1
  /\ ((\A p \in Procs : op[p] = "Reload" => pc[p] = "idle") /\ lastLocked # 0)
       => /\ hosts = TextHosts[lastLocked]
          /\ period = TextOption[lastLocked]

\* two Reload calls of texts that differ in records and in period have both
\* swapped and returned on a table that is not stopped; the table is that of
\* the second to lock and has neither the records nor the period of the other
C13_Witness ==
  \E p, q \in Procs :
    /\ ~stopped
    /\ ReloadOf(p) /\ ReloadOf(q)
    /\ pc[p] = "idle" /\ pc[q] = "idle"
    /\ ~Readers[rd[p]].err /\ ~Readers[rd[q]].err
    /\ lastLocked = rd[q]
    /\ hosts = TextHosts[rd[q]]
    /\ hosts # TextHosts[rd[p]]
    /\ period = TextOption[rd[q]]
    /\ period # TextOption[rd[p]]

\* C14: the stopped channel is open after construction; no step of any call
\* reopens it once it is closed; it is closed when a Stop call has returned;
\* and a Stopped call made when a Stop call has returned yields true.
C14_StoppedLatch ==
  /\ ~stopped
  /\ [][/\ stopped => stopped'
        /\ stopReturned' => stopped'
        /\ \A p \in Procs :
             (Returns(p) /\ op'[p] = "Stopped" /\ stopReturned) => ret'[p].b]_vars

\* after a Stop call has returned, a further Stop call has returned and a
\* Stopped call has yielded true
C14_Witness ==
  \E p, q \in Procs :
    /\ op[p] = "Stopped" /\ began[p] /\ pc[p] = "idle" /\ ret[p].b
    /\ op[q] = "Stop" /\ began[q] /\ pc[q] = "idle"
    /\ stopped

\* some call that has not returned can take its next step
Progress == \E p \in Procs : Step(p)

\* every call that has begun returns, unless the program has died of a panic
ReturnsUnlessPanic ==
  \A p \in Procs : (pc[p] # "idle") ~> (pc[p] = "idle" \/ panicked)

\* C15: Stop's close is never kept waiting, by the lock or by anything else;
\* when every call has returned the lock is free; and as long as some call
\* has not returned, some call can take its next step, so that under fair
\* scheduling every call returns.
C15_NoDeadlock ==
  /\ \A p \in Procs : pc[p] = "st_close" => ENABLED StopClose(p)
  /\ (\A p \in Procs : pc[p] = "idle") => (mux_w = 0 /\ mux_r = {})
  /\ (\E p \in Procs : pc[p] # "idle") => ENABLED Progress

\* C16 (as claimed): once a Stop call has returned, no step changes h.hosts or
\* h.period, the steps of a Reload that was reading its source when Stop was
\* called included.
C16_NoChangeAfterStop ==
  [][stopReturned => (hosts' = hosts /\ period' = period)]_vars

\* C16 (amended): once a Stop call has returned, h.hosts and h.period are
\* changed only by the swap of a Reload call that began before that Stop call
\* returned, and so had passed its check of Stopped(); no call that begins
\* later changes them.
C16_OnlyEarlierReloadsChange ==
  [][(stopReturned /\ <<hosts, period>>' # <<hosts, period>>)
       => \E p \in Procs :
            /\ Acts(p)
            /\ op[p] = "Reload"
            /\ ~began[p]
            /\ Writing(p)]_vars

\* a Stop call has returned, and a Reload that began before holds the write
\* lock, has written its period and is about to write its records
C16_Witness ==
  \E p \in Procs :
    /\ stopReturned
    /\ pc[p] = "rl_hosts"
    /\ ~began[p]
    /\ lhosts[p] # hosts
    /\ lperiod[p] # committed[2]

\* C17: no step of a Lookup, Period or Stopped call changes h.hosts, h.period
\* or the stopped channel, and no step of a Stop call changes h.hosts or
\* h.period.
C17_ReadOnlyCalls ==
  [][\A p \in Procs :
       Acts(p)
         => /\ op'[p] \in {"Lookup", "Period", "Stopped"}
                 => <<hosts, period, stopped>>' = <<hosts, period, stopped>>
            /\ op'[p] = "Stop" => <<hosts, period>>' = <<hosts, period>>]_vars

\* on a table with records and a period that a Reload installed, a Stop call
\* has closed the channel and returned and a Lookup, Period or Stopped call
\* has returned, and the table is still what the Reload installed
C17_Witness ==
  \E p, q \in Procs :
    /\ op[p] = "Stop" /\ pc[p] = "idle" /\ stopped
    /\ op[q] \in {"Lookup", "Period", "Stopped"} /\ pc[q] = "idle" /\ calls[q] > 1
    /\ lastReader # 0
    /\ hosts # <<>>
    /\ period # 0
    /\ <<hosts, period>> = committed

\* a blank of a line: a space or a tab
IsBlank(c) == c \in {" ", "\t"}

\* the length of the part of l before its first '#'
BodyLen(l) ==
  IF \E i \in 1..Len(l) : l[i] = "#"
  THEN (CHOOSE i \in 1..Len(l) : l[i] = "#" /\ \A j \in 1..(i - 1) : l[j] # "#") - 1
  ELSE Len(l)

\* the places of that part where a maximal run of non-blank characters begins
RunStarts(l) ==
  {i \in 1..BodyLen(l) : ~IsBlank(l[i]) /\ (i = 1 \/ IsBlank(l[i - 1]))}

\* the place where the run that begins at i ends
RunEnd(l, i) ==
  CHOOSE j \in i..BodyLen(l) :
    /\ \A k \in i..j : ~IsBlank(l[k])
    /\ j = BodyLen(l) \/ IsBlank(l[j + 1])

\* the maximal runs of non-blank characters of that part, in order
Runs(l) ==
  [k \in 1..Cardinality(RunStarts(l)) |->
     LET i == Nth(RunStarts(l), k) IN SubSeq(l, i, RunEnd(l, i))]

\* C18: for a line of ordinary characters, spaces, tabs and '#', splitLine
\* returns the maximal runs of non-blank characters of the part before the
\* first '#', in order; no token is empty or holds a space, a tab or a '#'.
\* (So blanks of any number and mix separate like one, and a line that is
\* empty, all blanks or all comment has no token.)
C18_SplitLineRuns ==
  /\ sl_ss = Runs(sl_line)
  /\ \A k \in 1..Len(sl_ss) :
       /\ sl_ss[k] # <<>>
       /\ \A i \in 1..Len(sl_ss[k]) : sl_ss[k][i] \notin {" ", "\t", "#"}

\* splitLine has returned two tokens for a line that separates them by a
\* space and a tab and ends with a comment
C18_Witness ==
  /\ Len(sl_ss) = 2
  /\ sl_ss[1] # sl_ss[2]
  /\ \E i \in 1..(Len(sl_line) - 1) : sl_line[i] = " " /\ sl_line[i + 1] = "\t"
  /\ sl_line[Len(sl_line)] = "#"

\* goroutine p is in h.mux.Lock() or between it and h.mux.Unlock()
Locking(p) == pc[p] = "rl_wait" \/ Writing(p)

\* C19: a Reload that is reading its source neither holds the write lock nor
\* has asked for it: the lock is with a Reload only from Lock() to Unlock(),
\* around the swap. So, as long as the program has not died of a panic, a
\* Lookup or Period call that asks for the read lock while Reload calls are
\* reading, and none is at the swap, gets it; and what it reads while a Reload
\* is reading is the table of the last completed swap.
C19_LockOnlyForSwap ==
  /\ \A p \in Procs : pc[p] \in {"rl_scan", "rl_lock"} => mux_w # p
  /\ \A p \in Procs : mux_w = p => Locking(p)
  /\ \A q \in Procs :
       (~panicked /\ pc[q] \in {"lk_rlock", "pd_rlock"}
          /\ \A p \in Procs : ~Locking(p))
         => ENABLED (LookupRLock(q) \/ PeriodRLock(q))
  /\ \A q \in Procs :
       (Reading(q) /\ \E p \in Procs : pc[p] = "rl_scan")
         => <<hosts, period>> = committed

\* a Reload is still reading its source; a Lookup that began after it (after
\* a Stop call that the Reload did not see) has returned an IP of the table
\* NewHosts built, which is not the table the Reload will install
C19_Witness ==
  \E p, q \in Procs :
    /\ pc[p] = "rl_scan"
    /\ op[q] = "Lookup" /\ began[q] /\ pc[q] = "idle"
    /\ ret[q].ip # NoIP
    /\ lastReader = 0
    /\ hosts # Scanned[rd[p]][2]

====
